---------------------------- MODULE Spec2Model ----------------------------
(***************************************************************************)
(* A model of the KubeSpawner hooks of osg-htc/jupyterhub-hooks:           *)
(*   osg/jupyterhub/kubespawner_hooks.py  (server lists and overrides)     *)
(*   osg/jupyter/kubespawner.py           (patch lists)                    *)
(*                                                                         *)
(* Python values are tagged pairs <<tag, payload>>:                        *)
(*   <<"none", 0>>        None                                             *)
(*   <<"int", n>>         an int                                           *)
(*   <<"bool", b>>        a bool                                           *)
(*   <<"str", cs>>        a str, cs the sequence of its characters         *)
(*   <<"list", xs>>       a list, xs the sequence of its elements          *)
(*   <<"map", m>>         a dict, m a function from its keys               *)
(*   <<"obj", <<c, m>>>>  an instance of the kubernetes.client class c,    *)
(*                        m a function from its attribute names            *)
(* Dict keys and attribute names are atomic; dicts are iterated in the     *)
(* order of KeyOrder (the order the keys are written in the YAML file).    *)
(***************************************************************************)
EXTENDS Integers, Sequences, FiniteSets, TLC

VARIABLES
    raw_value,       \* build_value: the declarative value object in memory
    raw_value0,      \* build_value: the declarative value as it was configured
    user,            \* build_value, merge_override, apply_patch: the OSPoolPerson or NoUser
    built,           \* build_value: the results of the successive builds of raw_value
    target,          \* merge_override: the dict merged into
    source,          \* merge_override: the dict merged from, as it is in memory
    mergeCall,       \* merge_override: the calls made, each with its arguments and outcome
    pod,             \* the V1Pod being customised
    patch,           \* apply_patch: the patch operation, as it is in memory
    patchCall,       \* apply_patch: the calls made, each with its arguments and outcome
    userdata,        \* spawner.userdata
    profile_list,    \* spawner.profile_list
    server_file,     \* the file at KUBESPAWNER_CONFIG, as osg.jupyterhub parses it
    server_config,   \* the Configuration of osg.jupyterhub, as the last hook left it
    patch_file,      \* the file at KUBESPAWNER_CONFIG, as osg.jupyter parses it
    patch_config,    \* the Configuration of osg.jupyter, as the last hook left it
    log,             \* the patches that modify_pod_hook logged as being applied
    options_result,  \* how options_form ended: "-" (not called), NoError, or the exception
    pod_result       \* how modify_pod_hook ended, likewise

buildVars == <<raw_value, raw_value0, user, built>>
mergeVars == <<target, source, mergeCall>>
patchVars == <<pod, patch, patchCall>>
hookVars ==
    <<userdata, profile_list, server_file, server_config, patch_file, patch_config,
      log, options_result, pod_result>>
vars == <<buildVars, mergeVars, patchVars, hookVars>>

-----------------------------------------------------------------------------
(* Values *)

None == <<"none", 0>>
IntV(n) == <<"int", n>>
BoolV(b) == <<"bool", b>>
StrV(cs) == <<"str", cs>>
ListV(xs) == <<"list", xs>>
MapV(m) == <<"map", m>>
ObjV(c, m) == <<"obj", <<c, m>>>>

IsNone(v) == v[1] = "none"
IsStr(v) == v[1] = "str"
IsList(v) == v[1] = "list"
IsMap(v) == v[1] = "map"
IsObj(v) == v[1] = "obj"

EmptyMap == [k \in {} |-> None]

NoError == "ok"

\* The keys of a dict in iteration order.
KeyOrder ==
    << "_", "name", "cpu", "labels", "include", "env", "nfs", "server", "path",
       "run_as_user", "run_as_group", "capabilities", "add", "drop", "value",
       "display_name", "kubespawner_override", "volumes", "privileged" >>

RECURSIVE KeysIn(_, _)
KeysIn(order, keys) ==
    IF order = <<>> THEN <<>>
    ELSE IF Head(order) \in keys THEN <<Head(order)>> \o KeysIn(Tail(order), keys)
    ELSE KeysIn(Tail(order), keys)

Items(m) == KeysIn(KeyOrder, DOMAIN m)

Without(m, k) == [j \in DOMAIN m \ {k} |-> m[j]]

-----------------------------------------------------------------------------
(* Strings *)

s_open == <<"{", "u", "s", "e", "r", ".">>
s_close == <<"}">>
s_username == <<"u", "s", "e", "r", "n", "a", "m", "e">>
s_uid == <<"u", "i", "d">>
s_gid == <<"g", "i", "d">>

\* dataclasses.fields(OSPoolPerson), in declaration order
OSPoolPersonFields == <<"username", "uid", "gid">>

FieldName == [username |-> s_username, uid |-> s_uid, gid |-> s_gid]

\* f"{{user.{field.name}}}"
Placeholder(field) == s_open \o FieldName[field] \o s_close

Digit == <<"0", "1", "2", "3", "4", "5", "6", "7", "8", "9">>

\* str(n) of an int
RECURSIVE NatToStr(_)
NatToStr(n) ==
    IF n < 10 THEN <<Digit[n + 1]>>
    ELSE NatToStr(n \div 10) \o <<Digit[(n % 10) + 1]>>

IntToStr(n) == IF n < 0 THEN <<"-">> \o NatToStr(0 - n) ELSE NatToStr(n)

NoUser == [present |-> FALSE, username |-> <<>>, uid |-> 0, gid |-> 0]

OSPoolPerson(username, uid, gid) ==
    [present |-> TRUE, username |-> username, uid |-> uid, gid |-> gid]

\* str(getattr(user, field.name))
FieldStr(u, field) ==
    IF field = "username" THEN u.username
    ELSE IF field = "uid" THEN IntToStr(u.uid)
    ELSE IntToStr(u.gid)

StartsWith(s, p) == Len(s) >= Len(p) /\ SubSeq(s, 1, Len(p)) = p

\* str.replace(old, new): every non-overlapping occurrence, left to right
RECURSIVE Replace(_, _, _)
Replace(s, old, new) ==
    IF Len(s) < Len(old) THEN s
    ELSE IF StartsWith(s, old)
         THEN new \o Replace(SubSeq(s, Len(old) + 1, Len(s)), old, new)
    ELSE <<Head(s)>> \o Replace(Tail(s), old, new)

\* the loop over dataclasses.fields(user)
RECURSIVE ReplaceFields(_, _, _)
ReplaceFields(s, u, fields) ==
    IF fields = <<>> THEN s
    ELSE ReplaceFields(Replace(s, Placeholder(Head(fields)), FieldStr(u, Head(fields))),
                       u, Tail(fields))

\* build_value on a str without the "if user:" guard on the uid and gid shortcuts
BuildStr_Unguarded(s, u) ==
    IF s = Placeholder("uid") THEN IntV(u.uid)
    ELSE IF s = Placeholder("gid") THEN IntV(u.gid)
    ELSE IF u.present THEN StrV(ReplaceFields(s, u, OSPoolPersonFields))
    ELSE StrV(s)

\* build_value on a str
BuildStr(s, u) ==
    IF u.present THEN
        IF s = Placeholder("uid") THEN IntV(u.uid)
        ELSE IF s = Placeholder("gid") THEN IntV(u.gid)
        ELSE StrV(ReplaceFields(s, u, OSPoolPersonFields))
    ELSE StrV(s)

-----------------------------------------------------------------------------
(* kubernetes.client: the classes the configuration may name with "_" *)

c_V1Volume == <<"V", "1", "V", "o", "l", "u", "m", "e">>
c_V1SecurityContext ==
    <<"V", "1", "S", "e", "c", "u", "r", "i", "t", "y", "C", "o", "n", "t", "e", "x", "t">>
c_V1Capabilities == <<"V", "1", "C", "a", "p", "a", "b", "i", "l", "i", "t", "i", "e", "s">>
c_V1EnvVar == <<"V", "1", "E", "n", "v", "V", "a", "r">>
c_V1Bogus == <<"V", "1", "B", "o", "g", "u", "s">>

\* k8s.__dict__, restricted to the classes of the model
K8sDict ==
    [ V1Volume |-> c_V1Volume,
      V1SecurityContext |-> c_V1SecurityContext,
      V1Capabilities |-> c_V1Capabilities,
      V1EnvVar |-> c_V1EnvVar ]

\* the keyword arguments of each class's constructor, which are its attributes
ClassAttrs ==
    [ V1Volume |-> {"name", "nfs"},
      V1SecurityContext |-> {"run_as_user", "run_as_group", "capabilities", "privileged"},
      V1Capabilities |-> {"add", "drop"},
      V1EnvVar |-> {"name", "value"},
      V1Pod |-> {"metadata", "spec"},
      V1ObjectMeta |-> {"name", "labels"},
      V1PodSpec |-> {"containers", "volumes", "security_context"},
      V1Container |-> {"name", "env", "security_context"} ]

\* cls(**args)
Construct(cls, args) ==
    IF cls = "dict" THEN [val |-> MapV(args), err |-> NoError]
    ELSE IF DOMAIN args \subseteq ClassAttrs[cls]
         THEN [val |-> ObjV(cls, [a \in ClassAttrs[cls] |->
                                    IF a \in DOMAIN args THEN args[a] ELSE None]),
               err |-> NoError]
    ELSE [val |-> None, err |-> "TypeError"]

-----------------------------------------------------------------------------
(* build_value *)

RECURSIVE BuildValue(_, _)
RECURSIVE BuildArgs(_, _, _)
RECURSIVE BuildElems(_, _)

\* for k, v in raw_value.items(): args[k] = build_value(v, user)
BuildArgs(items, keys, u) ==
    IF keys = <<>> THEN [args |-> EmptyMap, raw |-> items, err |-> NoError]
    ELSE LET k == Head(keys)
             r == BuildValue(items[k], u)
             items1 == [items EXCEPT ![k] = r.raw]
         IN  IF r.err # NoError
             THEN [args |-> EmptyMap, raw |-> items1, err |-> r.err]
             ELSE LET rest == BuildArgs(items1, Tail(keys), u)
                  IN  [args |-> (k :> r.val) @@ rest.args,
                       raw |-> rest.raw, err |-> rest.err]

\* [build_value(x, user) for x in raw_value]
BuildElems(xs, u) ==
    IF xs = <<>> THEN [vals |-> <<>>, raw |-> <<>>, err |-> NoError]
    ELSE LET r == BuildValue(Head(xs), u)
         IN  IF r.err # NoError
             THEN [vals |-> <<>>, raw |-> <<r.raw>> \o Tail(xs), err |-> r.err]
             ELSE LET rest == BuildElems(Tail(xs), u)
                  IN  [vals |-> <<r.val>> \o rest.vals,
                       raw |-> <<r.raw>> \o rest.raw, err |-> rest.err]

\* The dict branch: raw_value.pop("_") removes the type tag from the dict in memory.
BuildDict(m, u) ==
    LET tagged == "_" \in DOMAIN m
        popped == IF tagged THEN Without(m, "_") ELSE m
        known == IF tagged
                 THEN {c \in DOMAIN K8sDict : m["_"] = StrV(K8sDict[c])}
                 ELSE {"dict"}
    IN  IF known = {}
        THEN [val |-> None, raw |-> MapV(popped), err |-> "KeyError"]
        ELSE LET cls == CHOOSE c \in known : TRUE
                 r == BuildArgs(popped, Items(popped), u)
                 made == Construct(cls, r.args)
             IN  IF r.err # NoError
                 THEN [val |-> None, raw |-> MapV(r.raw), err |-> r.err]
                 ELSE [val |-> made.val, raw |-> MapV(r.raw), err |-> made.err]

\* build_value(raw_value, user): the value built, the raw value as the call leaves
\* it in memory, and the exception raised, if any.
BuildValue(raw, u) ==
    IF IsStr(raw)
    THEN [val |-> BuildStr(raw[2], u), raw |-> raw, err |-> NoError]
    ELSE IF IsMap(raw) THEN BuildDict(raw[2], u)
    ELSE IF IsList(raw)
         THEN LET r == BuildElems(raw[2], u)
              IN  [val |-> IF r.err = NoError THEN ListV(r.vals) ELSE None,
                   raw |-> ListV(r.raw), err |-> r.err]
    ELSE [val |-> raw, raw |-> raw, err |-> NoError]

-----------------------------------------------------------------------------
(* merge_override *)

\* d[k] = v
SetItem(d, k, v) == (k :> v) @@ d

\* d.setdefault(k, v)
SetDefault(d, k, v) == IF k \in DOMAIN d THEN d ELSE SetItem(d, k, v)

\* d.update(v): the keys of v are set in d, one level deep
DictUpdate_Deep(d, v) ==
    [j \in DOMAIN d \cup DOMAIN v |->
        IF j \notin DOMAIN v THEN d[j]
        ELSE IF j \in DOMAIN d /\ IsMap(d[j]) /\ IsMap(v[j])
             THEN MapV(v[j][2] @@ d[j][2])
        ELSE v[j]]

DictUpdate(d, v) == v @@ d

\* one iteration of the loop of merge_override: target after the built value v
\* is merged in at key k, and the exception raised, if any
MergeKey_Replace(tgt, k, v) ==
    [target |-> SetItem(tgt, k, v), err |-> NoError]

MergeKey(tgt, k, v) ==
    IF IsMap(v)
    THEN LET t1 == SetDefault(tgt, k, MapV(EmptyMap))
         IN  IF IsMap(t1[k])
             THEN [target |-> SetItem(t1, k, MapV(DictUpdate(t1[k][2], v[2]))),
                   err |-> NoError]
             ELSE [target |-> t1, err |-> "AttributeError"]
    ELSE IF IsList(v)
    THEN LET t1 == SetDefault(tgt, k, ListV(<<>>))
         IN  IF IsList(t1[k])
             THEN [target |-> SetItem(t1, k, ListV(t1[k][2] \o v[2])), err |-> NoError]
             ELSE [target |-> t1, err |-> "AttributeError"]
    ELSE [target |-> SetItem(tgt, k, v), err |-> NoError]

\* for k, raw_v in source.items(): ...
RECURSIVE MergeItems(_, _, _, _)
MergeItems(tgt, src, keys, u) ==
    IF keys = <<>> THEN [target |-> tgt, source |-> src, err |-> NoError]
    ELSE LET k == Head(keys)
             r == BuildValue(src[k], u)
             src1 == [src EXCEPT ![k] = r.raw]
         IN  IF r.err # NoError
             THEN [target |-> tgt, source |-> src1, err |-> r.err]
             ELSE LET m == MergeKey(tgt, k, r.val)
                  IN  IF m.err # NoError
                      THEN [target |-> m.target, source |-> src1, err |-> m.err]
                      ELSE MergeItems(m.target, src1, Tail(keys), u)

\* merge_override(target, source, user): both dicts as the call leaves them in
\* memory, and the exception raised, if any
MergeOverride(tgt, src, u) == MergeItems(tgt, src, Items(src), u)

-----------------------------------------------------------------------------
(* The pod, and apply_patch *)

NOTEBOOK_CONTAINER_NAME == <<"n", "o", "t", "e", "b", "o", "o", "k">>

\* A place in the pod: the attributes and list indices that lead to it.
AttrStep(a) == <<"attr", a, 0>>
ItemStep(i) == <<"item", "", i>>

RECURSIVE GetAt(_, _)
GetAt(node, loc) ==
    IF loc = <<>> THEN node
    ELSE IF Head(loc)[1] = "attr" THEN GetAt(node[2][2][Head(loc)[2]], Tail(loc))
    ELSE GetAt(node[2][Head(loc)[3]], Tail(loc))

RECURSIVE SetAt(_, _, _)
SetAt(node, loc, v) ==
    IF loc = <<>> THEN v
    ELSE IF Head(loc)[1] = "attr"
         THEN LET a == Head(loc)[2]
              IN  ObjV(node[2][1],
                       [node[2][2] EXCEPT ![a] = SetAt(node[2][2][a], Tail(loc), v)])
    ELSE LET i == Head(loc)[3]
         IN  ListV([node[2] EXCEPT ![i] = SetAt(node[2][i], Tail(loc), v)])

\* getattr(node, a)
GetAttr(node, a) ==
    IF IsObj(node) /\ a \in DOMAIN node[2][2]
    THEN [ok |-> TRUE, val |-> node[2][2][a]]
    ELSE [ok |-> FALSE, val |-> None]

\* setattr(node, a, v), on an object
SetAttr(node, a, v) == ObjV(node[2][1], SetItem(node[2][2], a, v))

\* get_notebook_container(pod): the place of the first container named "notebook"
GetNotebookContainer(pd) ==
    LET cs == pd[2][2]["spec"][2][2]["containers"][2]
        named == {i \in DOMAIN cs : cs[i][2][2]["name"] = StrV(NOTEBOOK_CONTAINER_NAME)}
    IN  IF named = {} THEN [ok |-> FALSE, loc |-> <<>>]
        ELSE [ok |-> TRUE,
              loc |-> <<AttrStep("spec"), AttrStep("containers"),
                        ItemStep(CHOOSE i \in named : \A j \in named : i <= j)>>]

\* path.split("/"): a path is the sequence of its names and of the "/" between them
RECURSIVE Split(_)
Split(path) ==
    IF \A i \in DOMAIN path : path[i] # "/" THEN <<path>>
    ELSE LET i == CHOOSE j \in DOMAIN path :
                      path[j] = "/" /\ \A h \in 1..(j - 1) : path[h] # "/"
         IN  <<SubSeq(path, 1, i - 1)>> \o Split(SubSeq(path, i + 1, Len(path)))

\* a component of a path, as an attribute name
PartName(part) == IF Len(part) = 1 THEN part[1] ELSE ""

\* for p in path_parts[1:-1]: loc = getattr(loc, p)
RECURSIVE Navigate(_, _, _)
Navigate(pd, loc, parts) ==
    IF parts = <<>> THEN [ok |-> TRUE, loc |-> loc]
    ELSE LET g == GetAttr(GetAt(pd, loc), PartName(Head(parts)))
         IN  IF g.ok
             THEN Navigate(pd, Append(loc, AttrStep(PartName(Head(parts)))), Tail(parts))
             ELSE [ok |-> FALSE, loc |-> loc]

\* the elements that list.extend(v) adds
Iterate(v) ==
    IF IsList(v) THEN [ok |-> TRUE, elems |-> v[2]]
    ELSE IF IsStr(v) THEN [ok |-> TRUE, elems |-> [i \in DOMAIN v[2] |-> StrV(<<v[2][i]>>)]]
    ELSE IF IsMap(v)   \* the keys of the dict, each kept as the one atom it is here
         THEN [ok |-> TRUE, elems |-> [i \in DOMAIN Items(v[2]) |-> StrV(<<Items(v[2])[i]>>)]]
    ELSE [ok |-> FALSE, elems |-> <<>>]

\* the loop of "merge-keys" over patch["value"].items(), on the current value
\* of the field
RECURSIVE MergeKeys(_, _, _, _)
MergeKeys(current, items, keys, u) ==
    IF keys = <<>> THEN [val |-> current, raw |-> items, err |-> NoError]
    ELSE LET k == Head(keys)
         IN  IF k = "_" THEN MergeKeys(current, items, Tail(keys), u)
             ELSE LET r == BuildValue(items[k], u)
                      items1 == [items EXCEPT ![k] = r.raw]
                  IN  IF r.err # NoError
                      THEN [val |-> current, raw |-> items1, err |-> r.err]
                      ELSE IF IsMap(current)
                      THEN MergeKeys(MapV(SetItem(current[2], k, r.val)),
                                     items1, Tail(keys), u)
                      ELSE IF IsObj(current)
                      THEN MergeKeys(SetAttr(current, k, r.val), items1, Tail(keys), u)
                      ELSE [val |-> current, raw |-> items1, err |-> "AttributeError"]

\* The branches of apply_patch on op, at the object at loc and its attribute
\* last: the pod, patch["value"] as it is left in memory, the exception raised.
\* the list operations with "prepend" adding at the end, as "append" does
ApplyListOp_PrependLast(pd, loc, last, op, value, raw) ==
    LET node == GetAt(pd, loc)
        g == GetAttr(node, last)
        cur == IF IsNone(g.val) THEN ListV(<<>>) ELSE g.val
        put(xs) == SetAt(pd, loc, SetAttr(node, last, ListV(xs)))
    IN  IF ~g.ok \/ ~IsList(cur) THEN [pod |-> pd, raw |-> raw, err |-> "AttributeError"]
        ELSE IF op = "extend"
        THEN IF Iterate(value).ok
             THEN [pod |-> put(cur[2] \o Iterate(value).elems), raw |-> raw, err |-> NoError]
             ELSE [pod |-> pd, raw |-> raw, err |-> "TypeError"]
        ELSE [pod |-> put(Append(cur[2], value)), raw |-> raw, err |-> NoError]

ApplyListOp(pd, loc, last, op, value, raw) ==
    LET node == GetAt(pd, loc)
        g == GetAttr(node, last)
    IN  IF ~g.ok THEN [pod |-> pd, raw |-> raw, err |-> "AttributeError"]
        ELSE LET cur == IF IsNone(g.val) THEN ListV(<<>>) ELSE g.val
                 pod1 == IF IsNone(g.val) THEN SetAt(pd, loc, SetAttr(node, last, cur))
                         ELSE pd
                 put(xs) == SetAt(pod1, loc, SetAttr(GetAt(pod1, loc), last, ListV(xs)))
             IN  IF ~IsList(cur) THEN [pod |-> pod1, raw |-> raw, err |-> "AttributeError"]
                 ELSE IF op = "append"
                 THEN [pod |-> put(Append(cur[2], value)), raw |-> raw, err |-> NoError]
                 ELSE IF op = "extend"
                 THEN IF Iterate(value).ok
                      THEN [pod |-> put(cur[2] \o Iterate(value).elems),
                            raw |-> raw, err |-> NoError]
                      ELSE [pod |-> pod1, raw |-> raw, err |-> "TypeError"]
                 ELSE [pod |-> put(<<value>> \o cur[2]), raw |-> raw, err |-> NoError]

ApplySet(pd, loc, last, value, raw) ==
    LET node == GetAt(pd, loc)
    IN  IF IsObj(node)
        THEN [pod |-> SetAt(pd, loc, SetAttr(node, last, value)),
              raw |-> raw, err |-> NoError]
        ELSE [pod |-> pd, raw |-> raw, err |-> "AttributeError"]

\* "set-default" that takes every falsy value ([], {}, 0, False) for unset
ApplySetDefault_Falsy(pd, loc, last, value, raw) ==
    LET g == GetAttr(GetAt(pd, loc), last)
        falsy == g.val \in {None, ListV(<<>>), MapV(EmptyMap), IntV(0), BoolV(FALSE)}
    IN  IF ~g.ok THEN [pod |-> pd, raw |-> raw, err |-> "AttributeError"]
        ELSE IF falsy THEN ApplySet(pd, loc, last, value, raw)
        ELSE [pod |-> pd, raw |-> raw, err |-> NoError]

ApplySetDefault(pd, loc, last, value, raw) ==
    LET g == GetAttr(GetAt(pd, loc), last)
    IN  IF ~g.ok THEN [pod |-> pd, raw |-> raw, err |-> "AttributeError"]
        ELSE IF IsNone(g.val) THEN ApplySet(pd, loc, last, value, raw)
        ELSE [pod |-> pd, raw |-> raw, err |-> NoError]

ApplyMergeKeys(pd, loc, last, value, raw, u) ==
    LET node == GetAt(pd, loc)
        g == GetAttr(node, last)
    IN  IF ~g.ok THEN [pod |-> pd, raw |-> raw, err |-> "AttributeError"]
        ELSE IF IsNone(g.val) THEN ApplySet(pd, loc, last, value, raw)
        ELSE IF ~IsMap(raw) THEN [pod |-> pd, raw |-> raw, err |-> "AttributeError"]
        ELSE LET m == MergeKeys(g.val, raw[2], Items(raw[2]), u)
             IN  [pod |-> SetAt(pd, loc, SetAttr(node, last, m.val)),
                  raw |-> MapV(m.raw), err |-> m.err]

\* apply_patch that takes an op it does not know for one that does nothing
ApplyOp_UnknownIgnored(pd, loc, last, op, value, raw, u) ==
    IF op \in {"append", "extend", "prepend"}
    THEN ApplyListOp(pd, loc, last, op, value, raw)
    ELSE IF op = "set" THEN ApplySet(pd, loc, last, value, raw)
    ELSE IF op = "set-default" THEN ApplySetDefault(pd, loc, last, value, raw)
    ELSE IF op = "merge-keys" THEN ApplyMergeKeys(pd, loc, last, value, raw, u)
    ELSE [pod |-> pd, raw |-> raw, err |-> NoError]

ApplyOp(pd, loc, last, op, value, raw, u) ==
    IF op \in {"append", "extend", "prepend"}
    THEN ApplyListOp(pd, loc, last, op, value, raw)
    ELSE IF op = "set" THEN ApplySet(pd, loc, last, value, raw)
    ELSE IF op = "set-default" THEN ApplySetDefault(pd, loc, last, value, raw)
    ELSE IF op = "merge-keys" THEN ApplyMergeKeys(pd, loc, last, value, raw, u)
    ELSE [pod |-> pd, raw |-> raw, err |-> "RuntimeError"]

\* apply_patch(patch, pod, user): the pod and the patch as the call leaves them
\* in memory, and the exception raised, if any
ApplyPatch(pt, pd, u) ==
    LET nb == GetNotebookContainer(pd)
        parts == Split(pt.path)
        b == BuildValue(pt.value, u)
        patch1 == [pt EXCEPT !.value = b.raw]
        root == PartName(parts[1])
        nav == Navigate(pd, IF root = "pod" THEN <<>> ELSE nb.loc,
                        SubSeq(parts, 2, Len(parts) - 1))
        last == PartName(parts[Len(parts)])
    IN  IF ~nb.ok THEN [pod |-> pd, patch |-> pt, err |-> "RuntimeError"]
        ELSE IF b.err # NoError THEN [pod |-> pd, patch |-> patch1, err |-> b.err]
        ELSE IF root \notin {"pod", "notebook"}
        THEN [pod |-> pd, patch |-> patch1, err |-> "RuntimeError"]
        ELSE IF ~nav.ok THEN [pod |-> pd, patch |-> patch1, err |-> "AttributeError"]
        ELSE LET r == ApplyOp(pd, nav.loc, last, pt.op, b.val, b.raw, u)
             IN  [pod |-> r.pod, patch |-> [pt EXCEPT !.value = r.raw], err |-> r.err]

-----------------------------------------------------------------------------
(* comanage.get_person and auth_state_hook *)

NoPerson == [present |-> FALSE, sub |-> "", groups |-> <<>>, ospool |-> NoUser]

COmanagePerson(sub, groups, ospool) ==
    [present |-> TRUE, sub |-> sub, groups |-> groups, ospool |-> ospool]

\* an OIDC userinfo object without any of the claims that get_person reads
NoUserinfo ==
    [sub |-> "", groups |-> <<>>, unix_username |-> <<>>, unix_uid |-> None,
     unix_gid |-> None]

\* Python's truth value of a claim
Truthy(v) ==
    IF IsNone(v) THEN FALSE
    ELSE IF v[1] = "int" THEN v[2] # 0
    ELSE IF IsStr(v) THEN v[2] # <<>>
    ELSE TRUE

IsDigits(cs) == cs # <<>> /\ \A i \in DOMAIN cs : \E d \in DOMAIN Digit : Digit[d] = cs[i]

RECURSIVE DigitsToNat(_)
DigitsToNat(cs) ==
    IF cs = <<>> THEN 0
    ELSE 10 * DigitsToNat(SubSeq(cs, 1, Len(cs) - 1))
           + ((CHOOSE d \in DOMAIN Digit : Digit[d] = cs[Len(cs)]) - 1)

\* int(v) of a claim: the number, or ValueError
ToInt(v) ==
    IF v[1] = "int" THEN [ok |-> TRUE, n |-> v[2]]
    ELSE IF IsStr(v) /\ IsDigits(v[2]) THEN [ok |-> TRUE, n |-> DigitsToNat(v[2])]
    ELSE [ok |-> FALSE, n |-> 0]

\* get_person(oidc_userinfo)
GetPerson(info) ==
    IF info.sub = "" THEN NoPerson
    ELSE IF info.unix_username # <<>> /\ Truthy(info.unix_uid) /\ Truthy(info.unix_gid)
              /\ ToInt(info.unix_uid).ok /\ ToInt(info.unix_gid).ok
         THEN COmanagePerson(info.sub, info.groups,
                             OSPoolPerson(info.unix_username, ToInt(info.unix_uid).n,
                                          ToInt(info.unix_gid).n))
    ELSE COmanagePerson(info.sub, info.groups, NoUser)

\* not spec.groups or set(spec.groups).intersection(person.groups)
GroupsMatch_All(groups, person) ==
    \A i \in DOMAIN groups : \E j \in DOMAIN person.groups : groups[i] = person.groups[j]

GroupsMatch(groups, person) ==
    \/ groups = <<>>
    \/ \E i \in DOMAIN groups : \E j \in DOMAIN person.groups : groups[i] = person.groups[j]

-----------------------------------------------------------------------------
(* osg/jupyterhub/kubespawner_hooks.py: get_config, get_servers, options_form *)

\* Configuration(server_defaults={}, server_overrides={}, server_lists=[])
EmptyConfiguration ==
    [server_defaults |-> EmptyMap, server_overrides |-> EmptyMap, server_lists |-> <<>>]

\* get_config(): the file parsed, or the empty configuration if there is no file
\* get_config that answers a missing file with a configuration of one server
GetConfig_Leftover(file) ==
    IF file.exists THEN file.config
    ELSE [ server_defaults |-> << >>,
           server_overrides |-> << >>,
           server_lists |-> << [ groups |-> <<>>,
                                 servers |-> << [display_name |-> StrV(<<"x">>)] >> ] >> ]

GetConfig(file) == IF file.exists THEN file.config ELSE EmptyConfiguration

\* get_servers(config, person): the places <<list, server>> of the servers
\* yielded, in order
RECURSIVE ServersFrom(_, _, _)
ServersFrom(config, person, i) ==
    IF i > Len(config.server_lists) THEN <<>>
    ELSE (IF GroupsMatch(config.server_lists[i].groups, person)
          THEN [j \in DOMAIN config.server_lists[i].servers |-> <<i, j>>]
          ELSE <<>>)
         \o ServersFrom(config, person, i + 1)

GetServers(config, person) == ServersFrom(config, person, 1)

\* for key in server_includes: ...
RECURSIVE MergeIncludes(_, _, _, _)
MergeIncludes(config, composite, includes, person) ==
    IF includes = <<>> THEN [config |-> config, composite |-> composite, err |-> NoError]
    ELSE LET key == Head(includes)[2]
         IN  IF key \notin DOMAIN config.server_overrides
             THEN [config |-> config, composite |-> composite, err |-> "KeyError"]
             ELSE LET override == config.server_overrides[key]
                  IN  IF GroupsMatch(override.groups, person)
                      THEN LET merged(r) ==
                                 LET config1 == [config EXCEPT
                                               !.server_overrides[key].override = r.source]
                                 IN  IF r.err # NoError
                                     THEN [config |-> config1, composite |-> r.target,
                                           err |-> r.err]
                                     ELSE MergeIncludes(config1, r.target, Tail(includes),
                                                        person)
                           IN  merged(MergeOverride(composite, override.override,
                                                    person.ospool))
                      ELSE MergeIncludes(config, composite, Tail(includes), person)

\* The body of the loop of options_form for the server at <<i, j>>: the
\* configuration as it is left in memory, and the exception raised, if any.
ResolveServer(config, i, j, person) ==
    LET server == config.server_lists[i].servers[j]
        has == "kubespawner_override" \in DOMAIN server
        got == IF has THEN server["kubespawner_override"][2] ELSE EmptyMap
        server_includes == IF "include" \in DOMAIN got THEN got["include"][2] ELSE <<>>
        server_override == Without(got, "include")
        put(cfg, v) == [cfg EXCEPT !.server_lists[i].servers[j] =
                                       SetItem(server, "kubespawner_override", MapV(v))]
        config1 == IF has THEN put(config, server_override) ELSE config
        merged(inc, own) ==
            IF own.err # NoError
            THEN [config |-> IF has THEN put(inc.config, own.source) ELSE inc.config,
                  err |-> own.err]
            ELSE [config |-> put(inc.config, own.target), err |-> NoError]
        included(inc) ==
            IF inc.err # NoError THEN [config |-> inc.config, err |-> inc.err]
            ELSE merged(inc, MergeOverride(inc.composite, server_override, person.ospool))
    IN  included(MergeIncludes(config1, config.server_defaults, server_includes, person))

\* for server in get_servers(config, person): ...
RECURSIVE ResolveServers(_, _, _, _)
ResolveServers(config, places, person, profiles) ==
    IF places = <<>> THEN [config |-> config, profile_list |-> profiles, err |-> NoError]
    ELSE LET i == Head(places)[1]
             j == Head(places)[2]
             resolved(r) ==
                 IF r.err # NoError
                 THEN [config |-> r.config, profile_list |-> profiles, err |-> r.err]
                 ELSE ResolveServers(r.config, Tail(places), person,
                                     Append(profiles, r.config.server_lists[i].servers[j]))
         IN  resolved(ResolveServer(config, i, j, person))

-----------------------------------------------------------------------------
(* osg/jupyter/kubespawner.py: get_config, get_patch_list, modify_pod_hook *)

\* Configuration(patch_lists=[], profile_lists=[], user_options=[],
\*               kubespawner_override_defaults={})
EmptyPatchConfiguration ==
    [patch_lists |-> <<>>, profile_lists |-> <<>>, user_options |-> <<>>,
     kubespawner_override_defaults |-> EmptyMap]

GetPatchConfig(file) == IF file.exists THEN file.config ELSE EmptyPatchConfiguration

\* get_patch_list(config, name): the index of the first patch list of that
\* name, or 0 for None
GetPatchList(config, name) ==
    LET named == {i \in DOMAIN config.patch_lists : config.patch_lists[i].name = name}
    IN  IF named = {} THEN 0 ELSE CHOOSE i \in named : \A j \in named : i <= j

\* for name in options.patch_lists: if pl := get_patch_list(config, name):
\*     for patch in pl.spec: ...
\* the places <<patch list, patch>> of the operations, in order
\* the patch lists of an entry taken last name first
RECURSIVE PatchesOf_LastFirst(_, _)
PatchesOf_LastFirst(config, names) ==
    IF names = <<>> THEN <<>>
    ELSE LET l == GetPatchList(config, Head(names))
         IN  PatchesOf_LastFirst(config, Tail(names))
             \o (IF l = 0 THEN <<>>
                 ELSE [c \in DOMAIN config.patch_lists[l].spec |-> <<l, c>>])

RECURSIVE PatchesOf(_, _)
PatchesOf(config, names) ==
    IF names = <<>> THEN <<>>
    ELSE LET l == GetPatchList(config, Head(names))
         IN  (IF l = 0 THEN <<>>
              ELSE [c \in DOMAIN config.patch_lists[l].spec |-> <<l, c>>])
             \o PatchesOf(config, Tail(names))

\* for options in config.user_options: if groups match: ...
RECURSIVE PatchesFrom(_, _, _)
PatchesFrom(config, person, a) ==
    IF a > Len(config.user_options) THEN <<>>
    ELSE (IF GroupsMatch(config.user_options[a].groups, person)
          THEN PatchesOf(config, config.user_options[a].patch_lists)
          ELSE <<>>)
         \o PatchesFrom(config, person, a + 1)

\* the calls of apply_patch in modify_pod_hook, until one raises
RECURSIVE ApplyPatches(_, _, _, _, _)
ApplyPatches(config, places, pd, u, lines) ==
    IF places = <<>> THEN [config |-> config, pod |-> pd, log |-> lines, err |-> NoError]
    ELSE LET l == Head(places)[1]
             c == Head(places)[2]
             pt == config.patch_lists[l].spec[c]
             lines1 == Append(lines, <<config.patch_lists[l].name, pt.path>>)
             applied(r) ==
                 LET config1 == [config EXCEPT !.patch_lists[l].spec[c] = r.patch]
                 IN  IF r.err # NoError
                     THEN [config |-> config1, pod |-> r.pod, log |-> lines1, err |-> r.err]
                     ELSE ApplyPatches(config1, Tail(places), r.pod, u, lines1)
         IN  applied(ApplyPatch(pt, pd, u))

s_token_name ==
    << "_", "o", "s", "g", "_", "H", "T", "C", "O", "N", "D", "O", "R", "_",
       "I", "D", "T", "O", "K", "E", "N" >>

\* what htcondor.create_token returns, which the model does not look into
s_token == <<"t", "o", "k", "e", "n">>

\* add_htcondor_idtoken(pod, user)
AddHtcondorIdtoken(pd) ==
    LET nb == GetNotebookContainer(pd)
        env == GetAt(pd, nb.loc)[2][2]["env"]
        var == ObjV("V1EnvVar", [name |-> StrV(s_token_name), value |-> StrV(s_token)])
    IN  IF ~nb.ok THEN [pod |-> pd, err |-> "RuntimeError"]
        ELSE IF ~IsList(env) THEN [pod |-> pd, err |-> "AttributeError"]
        ELSE [pod |-> SetAt(pd, Append(nb.loc, AttrStep("env")),
                            ListV(Append(env[2], var))),
              err |-> NoError]

\* modify_pod_hook(spawner, pod), for the person of the spawner's userdata
ModifyPod(config, person, pd) ==
    IF ~person.present
    THEN [config |-> config, pod |-> pd, log |-> <<>>, err |-> NoError]
    ELSE LET token(r, t) == [r EXCEPT !.pod = t.pod, !.err = t.err]
             patched(r) ==
                 IF r.err # NoError \/ ~person.ospool.present THEN r
                 ELSE token(r, AddHtcondorIdtoken(r.pod))
         IN  patched(ApplyPatches(config, PatchesFrom(config, person, 1), pd,
                                  person.ospool, <<>>))

-----------------------------------------------------------------------------
(* The build_value specification: one declarative value, built repeatedly *)

MaxBuilds == 3

s_al == <<"a", "l">>
s_x == <<"x">>
p_uid == Placeholder("uid")
p_gid == Placeholder("gid")
p_username == Placeholder("username")
\* not a field of OSPoolPerson
p_name == <<"{", "u", "s", "e", "r", ".", "n", "a", "m", "e", "}">>

\* The people of the model. The username is whatever the OIDC claim
\* unix_username holds; the last one holds the text of a placeholder.
Users ==
    { NoUser,
      OSPoolPerson(s_al, 1000, 2000),
      OSPoolPerson(p_gid, 1000, 2000) }

RawStrings ==
    { StrV(<<>>), StrV(s_x), StrV(p_uid), StrV(p_gid), StrV(p_username), StrV(p_name),
      StrV(s_x \o p_uid), StrV(p_uid \o p_uid), StrV(p_username \o <<"@">> \o p_gid),
      StrV(s_open \o p_uid), StrV(<<"{">> \o p_username \o <<"}">>) }

RawScalars == { None, IntV(0), IntV(1000), BoolV(FALSE) }

RawAtoms == { StrV(s_x), StrV(p_uid), StrV(s_x \o p_username), IntV(0) }

RawDicts ==
    { MapV(EmptyMap) }
    \cup { MapV([name |-> a]) : a \in RawAtoms }
    \cup { MapV([_ |-> StrV(c), name |-> a]) :
             c \in {c_V1Volume, c_V1EnvVar, c_V1Bogus}, a \in RawAtoms }
    \cup { MapV([_ |-> StrV(c_V1SecurityContext), run_as_user |-> a,
                 capabilities |-> MapV([_ |-> StrV(c_V1Capabilities),
                                        add |-> ListV(<<StrV(s_x)>>)])]) : a \in RawAtoms }
    \cup { MapV([_ |-> StrV(c_V1Volume), cpu |-> StrV(s_x)]),
           MapV([_ |-> IntV(0), name |-> StrV(s_x)]),
           MapV([name |-> MapV([_ |-> StrV(c_V1Bogus)]), nfs |-> MapV([_ |-> StrV(c_V1Volume)])]) }

RawLists ==
    { ListV(<<>>) }
    \cup { ListV(<<a, b>>) : a \in RawAtoms, b \in RawAtoms }
    \cup { ListV(<<d>>) : d \in RawDicts }
    \cup { ListV(<<ListV(<<a>>), b>>) : a \in RawAtoms, b \in RawAtoms }

RawValues == RawStrings \cup RawScalars \cup RawDicts \cup RawLists

BuildIdle ==
    /\ raw_value0 = None
    /\ raw_value = None
    /\ built = <<>>

MergeIdle ==
    /\ target = EmptyMap
    /\ source = EmptyMap
    /\ mergeCall = <<>>

HookIdle ==
    /\ userdata = NoUserinfo
    /\ profile_list = <<>>
    /\ server_file = [exists |-> FALSE, config |-> EmptyConfiguration]
    /\ server_config = EmptyConfiguration
    /\ patch_file = [exists |-> FALSE, config |-> EmptyPatchConfiguration]
    /\ patch_config = EmptyPatchConfiguration
    /\ log = <<>>
    /\ options_result = "-"
    /\ pod_result = "-"

PatchIdle ==
    /\ pod = None
    /\ patch = [path |-> <<>>, op |-> "", value |-> None]
    /\ patchCall = <<>>

BuildInit ==
    /\ raw_value0 \in RawValues
    /\ raw_value = raw_value0
    /\ user \in Users
    /\ built = <<>>
    /\ MergeIdle
    /\ PatchIdle
    /\ HookIdle

\* build_value(raw_value, user), called on the value in memory
BuildValueCall ==
    /\ Len(built) < MaxBuilds
    /\ LET r == BuildValue(raw_value, user)
       IN  /\ raw_value' = r.raw
           /\ built' = Append(built, [val |-> r.val, err |-> r.err])
    /\ UNCHANGED <<raw_value0, user, mergeVars, patchVars, hookVars>>

BuildNext == BuildValueCall

SpecBuild == BuildInit /\ [][BuildNext]_vars

-----------------------------------------------------------------------------
(* The merge_override specification: one target, one source, merged repeatedly *)

MaxMerges == 2

s_1 == <<"1">>
s_4 == <<"4">>
s_base == <<"b", "a", "s", "e">>
s_gpu == <<"g", "p", "u">>

\* the dicts with, for each key of choices, one of its values or no such key
DictsOf(choices) ==
    UNION { [K -> UNION {choices[k] : k \in K}] : K \in SUBSET DOMAIN choices }

Picks(choices) ==
    { MapV(d) : d \in { e \in DictsOf(choices) : \A k \in DOMAIN e : e[k] \in choices[k] } }

MergeTargets ==
    Picks([ cpu |-> { StrV(s_1) },
            labels |-> { ListV(<<StrV(s_base)>>), MapV([name |-> StrV(s_x)]) },
            env |-> { MapV([name |-> StrV(s_x),
                            value |-> MapV([add |-> IntV(1), drop |-> IntV(2)])]),
                      ListV(<<>>) } ])

MergeSources ==
    Picks([ cpu |-> { StrV(s_4), StrV(p_uid),
                      MapV([_ |-> StrV(c_V1Volume), name |-> StrV(s_x)]) },
            labels |-> { ListV(<<StrV(s_gpu)>>),
                         ListV(<<StrV(p_username),
                                 MapV([_ |-> StrV(c_V1EnvVar), name |-> StrV(s_x)])>>) },
            env |-> { MapV([value |-> MapV([add |-> IntV(3)])]),
                      MapV([name |-> StrV(p_username), cpu |-> IntV(1)]),
                      MapV([_ |-> StrV(c_V1Bogus)]),
                      None } ])

MergeInit ==
    /\ target \in {d[2] : d \in MergeTargets}
    /\ source \in {d[2] : d \in MergeSources}
    /\ user \in Users
    /\ mergeCall = <<>>
    /\ BuildIdle
    /\ PatchIdle
    /\ HookIdle

\* merge_override(target, source, user), called on the dicts in memory
MergeOverrideCall ==
    /\ Len(mergeCall) < MaxMerges
    /\ LET r == MergeOverride(target, source, user)
       IN  /\ target' = r.target
           /\ source' = r.source
           /\ mergeCall' = Append(mergeCall,
                                  [target |-> target, source |-> source, err |-> r.err])
    /\ UNCHANGED <<buildVars, patchVars, hookVars>>

MergeNext == MergeOverrideCall

SpecMerge == MergeInit /\ [][MergeNext]_vars

-----------------------------------------------------------------------------
(* The apply_patch specification: one pod, one patch operation, applied repeatedly *)

MaxApplies == 2

s_sidecar == <<"s", "i", "d", "e", "c", "a", "r">>

Container(name, env, security_context) ==
    ObjV("V1Container",
         [name |-> StrV(name), env |-> env, security_context |-> security_context])

SecurityContext(run_as_user, run_as_group, privileged) ==
    ObjV("V1SecurityContext",
         [run_as_user |-> run_as_user, run_as_group |-> run_as_group,
          capabilities |-> None, privileged |-> privileged])

Pod(labels, containers, volumes) ==
    ObjV("V1Pod",
         [metadata |-> ObjV("V1ObjectMeta", [name |-> StrV(s_x), labels |-> labels]),
          spec |-> ObjV("V1PodSpec",
                        [containers |-> ListV(containers), volumes |-> volumes,
                         security_context |-> None])])

Volume(name) == ObjV("V1Volume", [name |-> StrV(name), nfs |-> None])

PodLabels == { None, MapV([name |-> StrV(s_x), cpu |-> StrV(s_1)]) }

PodVolumes == { None, ListV(<<>>), ListV(<<Volume(s_base)>>) }

PodSecurityContexts ==
    { None,
      SecurityContext(IntV(0), IntV(0), BoolV(FALSE)),
      MapV([run_as_user |-> IntV(0), run_as_group |-> IntV(0)]) }

\* The pods KubeSpawner hands over: a notebook container after a sidecar, and
\* one pod that has no notebook container.
Pods ==
    { Pod(l, <<Container(s_sidecar, None, None),
               Container(NOTEBOOK_CONTAINER_NAME, ListV(<<>>), sc)>>, v) :
        l \in PodLabels, sc \in PodSecurityContexts, v \in PodVolumes }
    \cup { Pod(None, <<Container(s_sidecar, None, None)>>, None) }

PatchPaths ==
    { <<"pod", "/", "spec", "/", "volumes">>,
      <<"pod", "/", "metadata", "/", "labels">>,
      <<"notebook", "/", "security_context">>,
      <<"notebook", "/", "security_context", "/", "run_as_user">>,
      <<"notebook", "/", "security_context", "/", "privileged">>,
      <<"container", "/", "env">>,
      <<"pod", "/", "spec", "/", "bogus">> }

PatchOps == { "append", "extend", "prepend", "set", "set-default", "merge-keys", "remove" }

PatchValues ==
    { IntV(1000), StrV(p_uid), None,
      ListV(<<MapV([_ |-> StrV(c_V1Volume), name |-> StrV(p_username)])>>),
      ListV(<<StrV(s_x), IntV(0)>>),
      MapV([run_as_user |-> IntV(1000)]),
      MapV([_ |-> StrV(c_V1SecurityContext), run_as_user |-> StrV(p_uid),
            capabilities |-> MapV([_ |-> StrV(c_V1Capabilities),
                                   add |-> ListV(<<StrV(s_x)>>)])]),
      MapV([_ |-> StrV(c_V1Bogus)]) }

Patches == [path : PatchPaths, op : PatchOps, value : PatchValues]

PatchUsers == { NoUser, OSPoolPerson(s_al, 1000, 2000) }

PatchInit ==
    /\ pod \in Pods
    /\ patch \in Patches
    /\ user \in PatchUsers
    /\ patchCall = <<>>
    /\ BuildIdle
    /\ MergeIdle
    /\ HookIdle

\* apply_patch(patch, pod, user), called on the pod and the patch in memory
ApplyPatchCall ==
    /\ Len(patchCall) < MaxApplies
    /\ LET r == ApplyPatch(patch, pod, user)
       IN  /\ pod' = r.pod
           /\ patch' = r.patch
           /\ patchCall' = Append(patchCall, [pod |-> pod, patch |-> patch, err |-> r.err])
    /\ UNCHANGED <<buildVars, mergeVars, hookVars>>

PatchNext == ApplyPatchCall

SpecPatch == PatchInit /\ [][PatchNext]_vars

-----------------------------------------------------------------------------
(* The hooks: auth_state_hook, then options_form and modify_pod_hook *)

s_vol == <<"v", "o", "l">>
s_nope == <<"n", "o", "p", "e">>
s_2 == <<"2">>

\* a server option: its display_name, and its kubespawner_override if it has one
Server(name, override) ==
    IF override = None THEN [display_name |-> StrV(name)]
    ELSE [display_name |-> StrV(name), kubespawner_override |-> override]

Includes(names) == ListV([i \in DOMAIN names |-> StrV(names[i])])

ServerOverrides ==
    (s_gpu :> [ groups |-> <<"gpu-users">>,
                override |-> [cpu |-> StrV(s_4), labels |-> ListV(<<StrV(s_gpu)>>)] ])
    @@ (s_vol :> [ groups |-> <<>>,
                   override |-> [ cpu |-> StrV(s_2),
                                  volumes |-> ListV(<<MapV([_ |-> StrV(c_V1Volume),
                                                            name |-> StrV(p_username)])>>) ] ])

ServerConfigurations ==
    { [ server_defaults |-> [cpu |-> StrV(s_1), labels |-> ListV(<<StrV(s_base)>>)],
        server_overrides |-> ServerOverrides,
        server_lists |->
          << [ groups |-> g1,
               servers |-> << Server(<<"A", "1">>, MapV([include |-> Includes(inc1)])),
                              Server(<<"A", "2">>, own2) >> ],
             [ groups |-> <<"staff", "gpu-users">>,
               servers |-> << Server(<<"B", "1">>,
                                     MapV([include |-> Includes(<<s_gpu>>),
                                           labels |-> ListV(<<StrV(p_username)>>),
                                           env |-> MapV([name |-> StrV(p_uid)])])) >> ] >> ] :
        g1 \in { <<>>, <<"admins">> },
        inc1 \in { <<s_gpu>>, <<s_vol, s_gpu>>, <<s_gpu, s_vol>> },
        own2 \in { None, MapV([include |-> Includes(<<s_vol>>), cpu |-> StrV(s_4)]),
                   MapV([include |-> Includes(<<s_nope>>)]) } }

ServerFiles ==
    { [exists |-> TRUE, config |-> c] : c \in ServerConfigurations }
    \cup { [exists |-> FALSE, config |-> EmptyConfiguration] }

PatchVolume ==
    [ path |-> <<"pod", "/", "spec", "/", "volumes">>, op |-> "extend",
      value |-> ListV(<<MapV([_ |-> StrV(c_V1Volume), name |-> StrV(p_username)])>>) ]

PatchSecurity ==
    [ path |-> <<"notebook", "/", "security_context">>, op |-> "merge-keys",
      value |-> MapV([_ |-> StrV(c_V1SecurityContext), run_as_user |-> StrV(p_uid),
                      run_as_group |-> StrV(p_gid)]) ]

PatchLabels ==
    [ path |-> <<"pod", "/", "metadata", "/", "labels">>, op |-> "set-default",
      value |-> MapV([name |-> StrV(s_gpu)]) ]

PatchRemove ==
    [ path |-> <<"pod", "/", "spec", "/", "volumes">>, op |-> "remove", value |-> None ]

\* a path rooted at neither "pod" nor "notebook"
PatchRoot ==
    [ path |-> <<"container", "/", "env">>, op |-> "set", value |-> ListV(<<>>) ]

PatchAppend ==
    [ path |-> <<"pod", "/", "spec", "/", "volumes">>, op |-> "append",
      value |-> MapV([_ |-> StrV(c_V1Volume), name |-> StrV(s_x)]) ]

PatchLists ==
    << [name |-> "base", spec |-> <<PatchVolume, PatchSecurity>>],
       [name |-> "gpu", spec |-> <<PatchLabels, PatchVolume>>],
       [name |-> "bad", spec |-> <<PatchLabels, PatchRemove, PatchVolume>>],
       [name |-> "root", spec |-> <<PatchAppend, PatchRoot, PatchVolume>>],
       [name |-> "first", spec |-> <<PatchAppend>>] >>

PatchConfigurations ==
    { [ patch_lists |-> PatchLists,
        profile_lists |-> <<>>,
        user_options |->
          << [groups |-> g1, profile_lists |-> <<>>, patch_lists |-> names1],
             [groups |-> <<"staff", "gpu-users">>, profile_lists |-> <<>>,
              patch_lists |-> names2] >>,
        kubespawner_override_defaults |-> EmptyMap ] :
        g1 \in { <<>>, <<"admins">> },
        names1 \in { <<"base">>, <<"nope", "gpu">> },
        names2 \in { <<"gpu">>, <<"base", "gpu">>, <<"bad", "gpu">>, <<"root", "gpu">>,
                     <<"first", "base">> } }

PatchFiles ==
    { [exists |-> TRUE, config |-> c] : c \in PatchConfigurations }
    \cup { [exists |-> FALSE, config |-> EmptyPatchConfiguration] }

s_1000 == <<"1", "0", "0", "0">>

Userinfos ==
    { NoUserinfo,
      [NoUserinfo EXCEPT !.groups = <<"staff">>],
      [NoUserinfo EXCEPT !.sub = "sub1"],
      [ sub |-> "sub1", groups |-> <<"staff">>, unix_username |-> s_al,
        unix_uid |-> StrV(s_1000), unix_gid |-> IntV(2000) ],
      [ sub |-> "sub1", groups |-> <<"gpu-users", "other">>, unix_username |-> s_al,
        unix_uid |-> StrV(s_x), unix_gid |-> IntV(2000) ],
      [ sub |-> "sub1", groups |-> <<"other">>, unix_username |-> s_al,
        unix_uid |-> IntV(1000), unix_gid |-> IntV(0) ],
      [ sub |-> "sub1", groups |-> <<"admins", "gpu-users">>, unix_username |-> s_al,
        unix_uid |-> IntV(1000), unix_gid |-> IntV(2000) ] }

\* auth_state: None, a dict without "cilogon_user", or a dict with a userinfo
AuthStates ==
    { [given |-> FALSE, cilogon_user |-> NoUserinfo] }
    \cup { [given |-> TRUE, cilogon_user |-> i] : i \in Userinfos }

HookPods ==
    { Pod(None, <<Container(s_sidecar, None, None),
                  Container(NOTEBOOK_CONTAINER_NAME, ListV(<<>>), None)>>, None),
      Pod(MapV([name |-> StrV(s_x), cpu |-> StrV(s_1)]),
          <<Container(s_sidecar, None, None),
            Container(NOTEBOOK_CONTAINER_NAME, ListV(<<>>),
                      SecurityContext(IntV(0), IntV(0), BoolV(FALSE)))>>,
          ListV(<<Volume(s_base)>>)) }

Init ==
    /\ userdata = NoUserinfo
    /\ profile_list = <<>>
    /\ server_file \in ServerFiles
    /\ server_config = GetConfig(server_file)
    /\ patch_file \in PatchFiles
    /\ patch_config = GetPatchConfig(patch_file)
    /\ pod \in HookPods
    /\ log = <<>>
    /\ options_result = "-"
    /\ pod_result = "-"
    /\ user = NoUser
    /\ BuildIdle
    /\ MergeIdle
    /\ patch = [path |-> <<>>, op |-> "", value |-> None]
    /\ patchCall = <<>>

\* auth_state_hook(spawner, auth_state), which JupyterHub calls before the
\* options form is built and before the pod is made
AuthStateHook ==
    /\ options_result = "-"
    /\ pod_result = "-"
    /\ \E auth_state \in AuthStates :
          userdata' = IF auth_state.given THEN auth_state.cilogon_user ELSE NoUserinfo
    /\ UNCHANGED <<profile_list, server_file, server_config, patch_file, patch_config,
                   log, options_result, pod_result, buildVars, mergeVars, patchVars>>

\* options_form(spawner) of osg.jupyterhub
OptionsForm ==
    /\ \E person \in {GetPerson(userdata)}, config \in {GetConfig(server_file)} :
          IF person.present
          THEN \E r \in {ResolveServers(config, GetServers(config, person), person, <<>>)} :
                  /\ profile_list' = r.profile_list
                  /\ server_config' = r.config
                  /\ options_result' = r.err
          ELSE /\ options_result' = NoError
               /\ UNCHANGED <<profile_list, server_config>>
    /\ UNCHANGED <<userdata, server_file, patch_file, patch_config, log, pod_result,
                   buildVars, mergeVars, patchVars>>

\* modify_pod_hook(spawner, pod) of osg.jupyter, on the pod of this spawn
ModifyPodHook ==
    /\ pod_result = "-"
    /\ \E r \in {ModifyPod(GetPatchConfig(patch_file), GetPerson(userdata), pod)} :
          /\ pod' = r.pod
          /\ patch_config' = r.config
          /\ log' = r.log
          /\ pod_result' = r.err
    /\ UNCHANGED <<userdata, profile_list, server_file, server_config, patch_file,
                   options_result, buildVars, mergeVars, patch, patchCall>>

Next == AuthStateHook \/ OptionsForm \/ ModifyPodHook

Spec == Init /\ [][Next]_vars

-----------------------------------------------------------------------------
(* Claims about build_value, under SpecBuild *)

Contains(s, p) ==
    \E i \in 1..(Len(s) - Len(p) + 1) : SubSeq(s, i, i + Len(p) - 1) = p

NoPlaceholder(s) ==
    \A i \in DOMAIN OSPoolPersonFields : ~Contains(s, Placeholder(OSPoolPersonFields[i]))

\* s with every occurrence of every placeholder replaced by the field of u it
\* names, in one pass over s, so that nothing a field puts in is read again
RECURSIVE SubstAll(_, _)
SubstAll(s, u) ==
    IF s = <<>> THEN <<>>
    ELSE LET hit == {f \in {"username", "uid", "gid"} : StartsWith(s, Placeholder(f))}
         IN  IF hit = {} THEN <<Head(s)>> \o SubstAll(Tail(s), u)
             ELSE LET f == CHOOSE g \in hit : TRUE
                  IN  FieldStr(u, f)
                        \o SubstAll(SubSeq(s, Len(Placeholder(f)) + 1, Len(s)), u)

\* C5 (as claimed): building the same declarative value with the same identity
\* any number of times in succession yields the same result each time, also
\* for a dict that carries a type tag.
C5_Orig ==
    \A i \in DOMAIN built : \A j \in DOMAIN built :
        (built[i].err = NoError /\ built[j].err = NoError) => built[i].val = built[j].val

\* C6 (as claimed): with an identity, a string that is exactly {user.uid} or
\* {user.gid} builds to that integer, and every other string builds to the
\* string with every occurrence of every recognised placeholder replaced by
\* the string form of the field and every other character unchanged.
C6_Orig ==
    (user.present /\ IsStr(raw_value0) /\ Len(built) >= 1) =>
        /\ built[1].err = NoError
        /\ built[1].val =
             IF raw_value0[2] = p_uid THEN IntV(user.uid)
             ELSE IF raw_value0[2] = p_gid THEN IntV(user.gid)
             ELSE StrV(SubstAll(raw_value0[2], user))

\* C6 holds of every person whose username holds no brace (not a claim's formula;
\* it delimits the failure of C6_Orig).
C6_PlainUsername ==
    (user.present /\ ~Contains(user.username, <<"{">>)) => C6_Orig

\* C7: without an identity every string is returned verbatim, a whole-string
\* {user.uid} or {user.gid} included, and the build does not fail; with an
\* identity a string that holds no recognised placeholder is returned unchanged.
C7_GracefulDegradation ==
    \A i \in DOMAIN built :
        (IsStr(raw_value0) /\ (~user.present \/ NoPlaceholder(raw_value0[2]))) =>
            built[i] = [val |-> raw_value0, err |-> NoError]

C7_Witness ==
    /\ ~user.present
    /\ raw_value0 = StrV(p_uid)
    /\ Len(built) >= 1

-----------------------------------------------------------------------------
(* Claims about merge_override, under SpecMerge *)

\* target as the i-th call of merge_override left it
MergePost(i) == IF i < Len(mergeCall) THEN mergeCall[i + 1].target ELSE target

\* the one-level union of the dicts d and v, the entries of v winning
UnionOf(d, v, r) ==
    /\ DOMAIN r = DOMAIN d \cup DOMAIN v
    /\ \A j \in DOMAIN r : r[j] = IF j \in DOMAIN v THEN v[j] ELSE d[j]

\* C3: after merge_override(target, source, user) returns, for every key k of
\* source with v the value built from source[k]: if v is a dict, target[k] is
\* the one-level union of its previous dict (empty if k was absent) with v, v
\* winning and nested dicts replaced; if v is a list, target[k] is its
\* previous list (empty if absent) followed by v; otherwise target[k] is v.
\* Keys of target that are not keys of source are unchanged. The call
\* returns whenever every value builds and no dict or list meets a target[k]
\* of another kind.
C3_MergeRule ==
    \A i \in DOMAIN mergeCall :
        LET c == mergeCall[i]
            post == MergePost(i)
            b(k) == BuildValue(c.source[k], user)
            fits(k) ==
                \/ k \notin DOMAIN c.target
                \/ ~(IsMap(b(k).val) \/ IsList(b(k).val))
                \/ c.target[k][1] = b(k).val[1]
        IN  /\ \A k \in DOMAIN c.target \ DOMAIN c.source :
                k \in DOMAIN post /\ post[k] = c.target[k]
            /\ (\A k \in DOMAIN c.source : b(k).err = NoError /\ fits(k))
                 => c.err = NoError
            /\ c.err = NoError =>
                 /\ DOMAIN post = DOMAIN c.target \cup DOMAIN c.source
                 /\ \A k \in DOMAIN c.source :
                      LET v == b(k).val
                          absent == k \notin DOMAIN c.target
                      IN  IF IsMap(v)
                          THEN /\ IsMap(post[k])
                               /\ UnionOf(IF absent THEN EmptyMap ELSE c.target[k][2],
                                          v[2], post[k][2])
                          ELSE IF IsList(v)
                          THEN post[k] =
                                 ListV((IF absent THEN <<>> ELSE c.target[k][2]) \o v[2])
                          ELSE post[k] = v

\* a call that returns, with a dict merged into a dict that holds a nested
\* dict under a shared key, a list appended to a list, and a scalar set
C3_Witness ==
    /\ Len(mergeCall) >= 1
    /\ mergeCall[1].err = NoError
    /\ DOMAIN mergeCall[1].source = {"cpu", "labels", "env"}
    /\ DOMAIN mergeCall[1].target = {"cpu", "labels", "env"}
    /\ mergeCall[1].source["env"] = MapV([value |-> MapV([add |-> IntV(3)])])
    /\ mergeCall[1].target["labels"] = ListV(<<StrV(s_base)>>)
    /\ IsMap(mergeCall[1].target["env"])

-----------------------------------------------------------------------------
(* Claims about apply_patch, under SpecPatch *)

\* the pod as the i-th call of apply_patch left it
PatchPost(i) == IF i < Len(patchCall) THEN patchCall[i + 1].pod ELSE pod

\* the object and the attribute that the path of a patch addresses in a pod
Addressed(pt, pd) ==
    LET parts == Split(pt.path)
        start == IF PartName(parts[1]) = "pod" THEN <<>>
                 ELSE GetNotebookContainer(pd).loc
    IN  [loc |-> Navigate(pd, start, SubSeq(parts, 2, Len(parts) - 1)).loc,
         last |-> PartName(parts[Len(parts)])]

\* the value of the addressed field
Field(pt, pd) == GetAttr(GetAt(pd, Addressed(pt, pd).loc), Addressed(pt, pd).last).val

\* the value built from the patch as it is when the call is made
BuiltOf(c) == BuildValue(c.patch.value, user).val

\* C8: a list operation that returns leaves the field a list: the previous
\* elements (none if the field was unset) with, for append, the built value
\* after them; for extend, the elements of the built list after them, in
\* order; for prepend, the built value before them. The same one-element
\* extend applied twice to an unset field leaves it non-null after the first
\* call and with 2 elements after the second.
C8_ListOps ==
    \A i \in DOMAIN patchCall :
        LET c == patchCall[i]
            before == Field(c.patch, c.pod)
            old == IF IsNone(before) THEN <<>> ELSE before[2]
            after == Field(c.patch, PatchPost(i))
            v == BuiltOf(c)
        IN  (c.err = NoError /\ c.patch.op \in {"append", "extend", "prepend"}) =>
                /\ IsList(after)
                /\ c.patch.op = "append" => after[2] = old \o <<v>>
                /\ (c.patch.op = "extend" /\ IsList(v)) => after[2] = old \o v[2]
                /\ c.patch.op = "prepend" => after[2] = <<v>> \o old
                /\ (c.patch.op = "extend" /\ IsList(v) /\ Len(v[2]) = 1 /\ i = 2
                      /\ patchCall[1].err = NoError
                      /\ IsNone(Field(c.patch, patchCall[1].pod)))
                     => (~IsNone(before) /\ Len(after[2]) = 2)

C8_Witness ==
    /\ Len(patchCall) = 2
    /\ patchCall[1].err = NoError
    /\ patchCall[2].err = NoError
    /\ patchCall[1].patch.op = "extend"
    /\ patchCall[1].patch.path = <<"pod", "/", "spec", "/", "volumes">>
    /\ patchCall[1].patch.value =
         ListV(<<MapV([_ |-> StrV(c_V1Volume), name |-> StrV(p_username)])>>)
    /\ IsNone(Field(patchCall[1].patch, patchCall[1].pod))
    /\ Len(Field(patch, pod)[2]) = 2

\* C9 (as claimed): merge-keys on an unset field leaves what set leaves; on a
\* set field every key of the operation's raw value other than "_" holds
\* the value built from that key's raw value, and every other key or
\* attribute of the field is as it was.
C9_Orig ==
    \A i \in DOMAIN patchCall :
        LET c == patchCall[i]
            a == Addressed(c.patch, c.pod)
            before == Field(c.patch, c.pod)
            after == Field(c.patch, PatchPost(i))
            named == DOMAIN c.patch.value[2] \ {"_"}
        IN  (c.err = NoError /\ c.patch.op = "merge-keys") =>
                IF IsNone(before)
                THEN PatchPost(i) = ApplySet(c.pod, a.loc, a.last, BuiltOf(c), None).pod
                ELSE /\ after[1] = before[1]
                     /\ LET old == IF IsMap(before) THEN before[2] ELSE before[2][2]
                            new == IF IsMap(after) THEN after[2] ELSE after[2][2]
                        IN  /\ DOMAIN new = DOMAIN old \cup named
                            /\ \A k \in DOMAIN old \ named : new[k] = old[k]
                            /\ \A k \in named :
                                 new[k] = BuildValue(c.patch.value[2][k], user).val

\* C10: set leaves the field equal to the built value, whatever it held;
\* set-default leaves it equal to the built value when it was None and as it
\* was otherwise, also when it held [], {}, 0 or False.
C10_SetAndSetDefault ==
    \A i \in DOMAIN patchCall :
        LET c == patchCall[i]
            before == Field(c.patch, c.pod)
            after == Field(c.patch, PatchPost(i))
        IN  /\ (c.err = NoError /\ c.patch.op = "set") => after = BuiltOf(c)
            /\ (c.err = NoError /\ c.patch.op = "set-default") =>
                 after = IF IsNone(before) THEN BuiltOf(c) ELSE before

\* set-default has returned on a field that held False
C10_Witness ==
    /\ Len(patchCall) >= 1
    /\ patchCall[1].err = NoError
    /\ patchCall[1].patch.op = "set-default"
    /\ patchCall[1].patch.path = <<"notebook", "/", "security_context", "/", "privileged">>
    /\ Field(patchCall[1].patch, patchCall[1].pod) = BoolV(FALSE)
    /\ patchCall[1].patch.value = IntV(1000)

-----------------------------------------------------------------------------
(* Claims about the hooks, under Spec *)

Range(s) == { s[i] : i \in DOMAIN s }

RECURSIVE Flatten(_)
Flatten(ss) == IF ss = <<>> THEN <<>> ELSE Head(ss) \o Flatten(Tail(ss))

IsPrefix(s, t) == Len(s) <= Len(t) /\ s = SubSeq(t, 1, Len(s))

\* select(items, groups): the indices of the items whose required groups are
\* empty or intersect G, in input order
RECURSIVE Select(_, _, _)
Select(items, G, n) ==
    IF n > Len(items) THEN <<>>
    ELSE (IF items[n].groups = <<>> \/ Range(items[n].groups) \cap G # {}
          THEN <<n>> ELSE <<>>)
         \o Select(items, G, n + 1)

\* the display names of the servers of the selected server lists
SelectedServers(config, G) ==
    LET sel == Select(config.server_lists, G, 1)
    IN  Flatten([k \in DOMAIN sel |->
                   [j \in DOMAIN config.server_lists[sel[k]].servers |->
                      config.server_lists[sel[k]].servers[j].display_name]])

\* the log lines of the patches of one named patch list; none if no list has
\* that name
LinesOf(config, name) ==
    LET named == {l \in DOMAIN config.patch_lists : config.patch_lists[l].name = name}
    IN  IF named = {} THEN <<>>
        ELSE LET l == CHOOSE l \in named : \A m \in named : l <= m
             IN  [c \in DOMAIN config.patch_lists[l].spec |->
                    <<name, config.patch_lists[l].spec[c].path>>]

\* the log lines of the patch lists of the selected user_options entries
SelectedPatches(config, G) ==
    LET sel == Select(config.user_options, G, 1)
    IN  Flatten([k \in DOMAIN sel |->
                   Flatten([n \in DOMAIN config.user_options[sel[k]].patch_lists |->
                              LinesOf(config, config.user_options[sel[k]].patch_lists[n])])])

DisplayNames == [n \in DOMAIN profile_list |-> profile_list[n]["display_name"]]

\* C1: for a person with group set G, the servers offered are exactly those of
\* the server lists whose groups are empty or intersect G, in the order of the
\* configuration, and the patches applied are exactly those of the patch lists
\* named by the user_options entries whose groups are empty or intersect G, in
\* order (a hook that raises stops part-way, having selected a prefix).
C1_GroupSelection ==
    LET person == GetPerson(userdata)
        G == Range(person.groups)
    IN  person.present =>
          /\ options_result # "-" =>
               /\ IsPrefix(DisplayNames, SelectedServers(GetConfig(server_file), G))
               /\ options_result = NoError =>
                    DisplayNames = SelectedServers(GetConfig(server_file), G)
          /\ pod_result # "-" =>
               /\ IsPrefix(log, SelectedPatches(GetPatchConfig(patch_file), G))
               /\ pod_result = NoError =>
                    log = SelectedPatches(GetPatchConfig(patch_file), G)

\* both hooks have run for a person who is in a group of the second server
\* list and of the second user_options entry but in none of the first's
C1_Witness ==
    /\ GetPerson(userdata).present
    /\ options_result = NoError
    /\ pod_result = NoError
    /\ server_file.exists
    /\ patch_file.exists
    /\ server_file.config.server_lists[1].groups # <<>>
    /\ patch_file.config.user_options[1].groups # <<>>
    /\ Len(profile_list) = 1
    /\ Len(log) = 4

\* start from a copy of server_defaults and merge the override of each
\* include whose groups match, in listed order
RECURSIVE Included(_, _, _, _)
Included(config, composite, includes, person) ==
    IF includes = <<>> THEN composite
    ELSE LET override == config.server_overrides[Head(includes)[2]]
             matches == \/ override.groups = <<>>
                        \/ Range(override.groups) \cap Range(person.groups) # {}
         IN  Included(config,
                      IF matches
                      THEN MergeOverride(composite, override.override, person.ospool).target
                      ELSE composite,
                      Tail(includes), person)

\* the resolved kubespawner_override of one server entry of the configuration
Resolved(config, server, person) ==
    LET own == IF "kubespawner_override" \in DOMAIN server
               THEN server["kubespawner_override"][2] ELSE EmptyMap
        includes == IF "include" \in DOMAIN own THEN own["include"][2] ELSE <<>>
    IN  MergeOverride(Included(config, config.server_defaults, includes, person),
                      Without(own, "include"), person.ospool).target

\* C2: every server entry that options_form offers has, as its
\* kubespawner_override, the resolution of that entry over the configuration:
\* defaults, then the matching includes in order, then the entry's own
\* override; and it has every key of server_defaults.
C2_Orig ==
    LET person == GetPerson(userdata)
        config == GetConfig(server_file)
        places == GetServers(config, person)
    IN  person.present /\ options_result = NoError =>
          \A n \in DOMAIN profile_list :
             LET server == config.server_lists[places[n][1]].servers[places[n][2]]
                 got == profile_list[n]["kubespawner_override"]
             IN  /\ got = MapV(Resolved(config, server, person))
                 /\ DOMAIN config.server_defaults \subseteq DOMAIN got[2]

\* the example of C2, which the code gets right: an entry that includes 'gpu'
\* gets cpu '4' and labels base, gpu for a person in gpu-users, and the
\* defaults otherwise
C2_Example ==
    LET person == GetPerson(userdata)
    IN  person.present /\ options_result = NoError /\ profile_list # <<>>
        /\ profile_list[1]["display_name"] = StrV(<<"A", "1">>)
        /\ server_file.config.server_lists[1].servers[1]["kubespawner_override"]
             = MapV([include |-> Includes(<<s_gpu>>)])
        => profile_list[1]["kubespawner_override"] =
             IF "gpu-users" \in Range(person.groups)
             THEN MapV([cpu |-> StrV(s_4), labels |-> ListV(<<StrV(s_base), StrV(s_gpu)>>)])
             ELSE MapV([cpu |-> StrV(s_1), labels |-> ListV(<<StrV(s_base)>>)])

\* C4: a hook leaves the Configuration it read as it was: after options_form
\* the hub's configuration, and after modify_pod_hook the patch configuration,
\* equal what was loaded.
C4_Orig ==
    /\ options_result # "-" => server_config = GetConfig(server_file)
    /\ pod_result # "-" => patch_config = GetPatchConfig(patch_file)

-----------------------------------------------------------------------------
(* Claims about the patches of modify_pod_hook, under Spec *)

\* the places <<patch list, patch>> of one named patch list; none if no list
\* has that name
PlacesOf(config, name) ==
    LET named == {l \in DOMAIN config.patch_lists : config.patch_lists[l].name = name}
    IN  IF named = {} THEN <<>>
        ELSE LET l == CHOOSE l \in named : \A m \in named : l <= m
             IN  [c \in DOMAIN config.patch_lists[l].spec |-> <<l, c>>]

\* the operations selected for group set G: user_options entries in order,
\* within an entry its patch_lists names in order, within a list its
\* operations in declaration order
SelectedPlaces(config, G) ==
    LET sel == Select(config.user_options, G, 1)
    IN  Flatten([k \in DOMAIN sel |->
                   Flatten([n \in DOMAIN config.user_options[sel[k]].patch_lists |->
                              PlacesOf(config, config.user_options[sel[k]].patch_lists[n])])])

PatchAt(config, place) == config.patch_lists[place[1]].spec[place[2]]

LineAt(config, place) ==
    <<config.patch_lists[place[1]].name, PatchAt(config, place).path>>

\* the operations at places applied to pd one after another, each once, until
\* one raises: the pod, how many were tried, and the exception
RECURSIVE InOrder(_, _, _, _, _)
InOrder(config, places, pd, u, n) ==
    IF places = <<>> THEN [pod |-> pd, tried |-> n, err |-> NoError]
    ELSE LET next(r) ==
                 IF r.err # NoError THEN [pod |-> r.pod, tried |-> n + 1, err |-> r.err]
                 ELSE InOrder([config EXCEPT
                                 !.patch_lists[Head(places)[1]].spec[Head(places)[2]] = r.patch],
                              Tail(places), r.pod, u, n + 1)
         IN  next(ApplyPatch(PatchAt(config, Head(places)), pd, u))

InvalidOperation(pt) ==
    \/ pt.op \notin {"append", "extend", "prepend", "set", "set-default", "merge-keys"}
    \/ PartName(Split(pt.path)[1]) \notin {"pod", "notebook"}

\* the step of modify_pod_hook for an identified person
HookStep == pod_result = "-" /\ pod_result' # "-" /\ GetPerson(userdata).present

\* C11: when the operations selected for the person hold an operation with an
\* unknown op or an unknown root, and the operations before it apply without
\* error, modify_pod_hook raises, having tried exactly the operations up to
\* that one, and leaves the pod as the operations before it made it: the
\* failing operation changes nothing, none after it is applied, nothing is
\* rolled back.
C11_InvalidOperation ==
    [][ HookStep =>
          \E person \in {GetPerson(userdata)}, config \in {GetPatchConfig(patch_file)} :
            \E places \in {SelectedPlaces(config, Range(person.groups))} :
              \A k \in DOMAIN places :
                 ( /\ InvalidOperation(PatchAt(config, places[k]))
                   /\ \A h \in 1..(k - 1) : ~InvalidOperation(PatchAt(config, places[h])) )
                 => \E before \in {InOrder(config, SubSeq(places, 1, k - 1), pod,
                                           person.ospool, 0)} :
                       before.err = NoError =>
                          /\ pod_result' # NoError
                          /\ Len(log') = k
                          /\ pod' = before.pod ]_vars

\* the hook has raised at the second operation of the list "bad", whose op is
\* unknown: the labels that the first operation set are there, and the volume
\* of the third is not
C11_Witness ==
    /\ pod_result = "RuntimeError"
    /\ Len(log) = 2
    /\ log[2] = <<"bad", PatchRemove.path>>
    /\ Field(PatchLabels, pod) = MapV([name |-> StrV(s_gpu)])
    /\ IsNone(Field(PatchVolume, pod))

\* C12: modify_pod_hook applies the selected operations one after another in
\* the order of the user_options entries, of the names within an entry and of
\* the operations within a list, each once per listing, up to the first that
\* raises: the log holds the lines of the operations tried, in that order, and
\* the pod is what applying them in that order gives (with the IDTOKEN of an
\* OSPool person added after them).
C12_PatchOrdering ==
    [][ HookStep =>
          \E person \in {GetPerson(userdata)}, config \in {GetPatchConfig(patch_file)} :
            \E places \in {SelectedPlaces(config, Range(person.groups))} :
              \E e \in {InOrder(config, places, pod, person.ospool, 0)} :
                 /\ log' = [n \in 1..e.tried |-> LineAt(config, places[n])]
                 /\ IF e.err # NoError THEN pod' = e.pod /\ pod_result' = e.err
                    ELSE IF person.ospool.present
                    THEN pod' = AddHtcondorIdtoken(e.pod).pod
                    ELSE pod' = e.pod ]_vars

\* the hook has applied the list "first" and then the list "base": the volume
\* that "first" appends comes before the volume that "base" adds
C12_Witness ==
    /\ pod_result = NoError
    /\ Len(log) = 3
    /\ log[1][1] = "first"
    /\ log[2][1] = "base"
    /\ LET v == Field(PatchVolume, pod)[2]
       IN  /\ Len(v) >= 2
           /\ v[Len(v) - 1] = Volume(s_x)
           /\ v[Len(v)] # Volume(s_x)

-----------------------------------------------------------------------------
(* Claims about unknown references and a missing configuration, under Spec *)

\* a server offered to the person includes a key that server_overrides lacks
UnknownInclude(config, person) ==
    \E n \in DOMAIN GetServers(config, person) :
       LET place == GetServers(config, person)[n]
           server == config.server_lists[place[1]].servers[place[2]]
       IN  /\ "kubespawner_override" \in DOMAIN server
           /\ "include" \in DOMAIN server["kubespawner_override"][2]
           /\ \E key \in Range(server["kubespawner_override"][2]["include"][2]) :
                 key[2] \notin DOMAIN config.server_overrides

\* a user_options entry selected for the person names a patch list that
\* patch_lists lacks
UnknownPatchList(config, person) ==
    \E a \in Range(Select(config.user_options, Range(person.groups), 1)) :
       \E name \in Range(config.user_options[a].patch_lists) :
          \A l \in DOMAIN config.patch_lists : config.patch_lists[l].name # name

\* C13 (as claimed): a hook that meets an include key that is not in
\* server_overrides, or the name of a patch list that is not defined, raises;
\* it never returns normally with the name skipped.
C13_Orig ==
    LET person == GetPerson(userdata)
    IN  person.present =>
          /\ (options_result # "-" /\ UnknownInclude(GetConfig(server_file), person))
               => options_result # NoError
          /\ (pod_result # "-" /\ UnknownPatchList(GetPatchConfig(patch_file), person))
               => pod_result # NoError

\* the half of C13 that the code keeps: an unknown include key raises KeyError
C13_UnknownInclude ==
    LET person == GetPerson(userdata)
    IN  (person.present /\ options_result # "-"
         /\ UnknownInclude(GetConfig(server_file), person))
        => options_result = "KeyError"

\* C15: with no configuration file get_config returns the empty Configuration
\* and the hooks return without raising: options_form leaves an empty
\* profile_list, and modify_pod_hook logs and applies no patch, the pod being
\* as it was but for the IDTOKEN added for an OSPool person.
C15_MissingConfiguration ==
    [][ /\ (~server_file.exists /\ options_result' # "-") =>
              /\ options_result' = NoError
              /\ profile_list' = <<>>
              /\ server_config' = EmptyConfiguration
        /\ (~patch_file.exists /\ pod_result = "-" /\ pod_result' # "-") =>
              /\ pod_result' = NoError
              /\ log' = <<>>
              /\ patch_config' = EmptyPatchConfiguration
              /\ pod' = IF GetPerson(userdata).ospool.present
                        THEN AddHtcondorIdtoken(pod).pod ELSE pod ]_vars

\* both hooks have run without configuration files for an OSPool person
C15_Witness ==
    /\ ~server_file.exists
    /\ ~patch_file.exists
    /\ GetPerson(userdata).ospool.present
    /\ options_result = NoError
    /\ pod_result = NoError
    /\ profile_list = <<>>
    /\ log = <<>>

-----------------------------------------------------------------------------
(* A claim about the root of a path, under SpecPatch *)

\* C14 (as claimed): a path rooted at "notebook" on a pod without a container
\* of that name raises; a path rooted at "pod" is applied on such a pod as on
\* any other, so that an operation with a known op does not raise for the
\* missing container.
C14_Orig ==
    \A i \in DOMAIN patchCall :
        LET c == patchCall[i]
            root == PartName(Split(c.patch.path)[1])
            missing == ~GetNotebookContainer(c.pod).ok
        IN  /\ (root = "notebook" /\ missing) => c.err = "RuntimeError"
            /\ (root = "pod" /\ missing /\ ~InvalidOperation(c.patch))
                 => c.err # "RuntimeError"

\* the half of C14 that the code keeps: on a pod without a notebook container
\* every call raises, whatever the root
C14_MissingContainer ==
    \A i \in DOMAIN patchCall :
        ~GetNotebookContainer(patchCall[i].pod).ok => patchCall[i].err = "RuntimeError"

=============================================================================
